---- MODULE Spec2Model ----
(***************************************************************************)
(* Session and token lifecycle of the SaleAway Expo client.                *)
(*                                                                         *)
(* Two builds of state/slices/userSlice live in the repository:            *)
(*   - the password-grant slice with the refreshToken thunk, driven by the *)
(*     TokenRefreshManager component (specification Spec);                 *)
(*   - the hosted-UI PKCE slice (specification SpecPkce).                  *)
(* Both share the Credential Store keys and the reducers of the slice.     *)
(*                                                                         *)
(* JavaScript runs one continuation at a time: every action below is one   *)
(* continuation, from the completion of one await to the next await.  A    *)
(* storage call takes effect when it completes.                            *)
(***************************************************************************)
EXTENDS Integers, FiniteSets, Sequences, TLC

\* ------------------------------------------------------------------ bounds
MaxTicks == 2          \* checkAndRefreshToken invocations that can overlap
TimeStep == 90         \* seconds by which the clock advances in one step
MaxTime == 180         \* the clock stops advancing here
TokenLifetime == 80    \* seconds of validity of an id token the provider issues
PersistedExp == 45     \* exp of the id token a previous run may have persisted
MaxOps == 2            \* thunks the user interface dispatches in one run

\* ------------------------------------------------------- program constants
TOKEN_REFRESH_INTERVAL == 180   \* seconds (3 * 60 * 1000 ms)
TICK_THRESHOLD == 60            \* timeUntilExpiry < 60 in checkAndRefreshToken
CHECK_THRESHOLD == 30           \* timeUntilExpiry < 30 in checkAuthStatus

\* -------------------------------------------------------------------- values
Null == [kind |-> "null"]

ACCESS_TOKEN_KEY == "cognito_access_token"
ID_TOKEN_KEY == "cognito_id_token"
REFRESH_TOKEN_KEY == "cognito_refresh_token"
CODE_VERIFIER_KEY == "code_verifier"

TokenKeys == {ACCESS_TOKEN_KEY, ID_TOKEN_KEY, REFRESH_TOKEN_KEY}
Keys == TokenKeys \cup {CODE_VERIFIER_KEY}

\* A compact token is header.payload.signature; payload is the claims map the
\* provider signed.  grant identifies the token response it came from.
\* cognito_username "" stands for a token without the cognito:username claim.
IdToken(exp, sub) ==
  [kind |-> "id",
   segs |-> <<"hdr", [exp |-> exp, sub |-> sub, email |-> sub \o "@mail",
                      cognito_username |-> ""], "sig">>]
\* the same token with a cognito:username claim
Named(idToken, name) == [idToken EXCEPT !.segs[2].cognito_username = name]
AccessToken(exp) == [kind |-> "access", grant |-> exp]
RefreshToken(iat) == [kind |-> "refresh", iat |-> iat]
\* generateRandomString(128): a fresh value for every sign-in attempt
CodeVerifier(attempt) == [kind |-> "verifier", attempt |-> attempt]

\* a stored value that is no compact token: it has no second segment
Garbled == [kind |-> "id", segs |-> <<"hdr">>]

\* idToken.split('.') ; JSON.parse(atob(parts[1]...)) : the claims of segment 2
DecodePayload(idToken) == idToken.segs[2]

\* the decode does not throw: idTokenParts[1] exists and parses
Decodes(idToken) == Len(idToken.segs) >= 2

\* mutant: the username is always the sub, the cognito:username claim unread
UserOf_IgnoresUsername(payload) ==
  [username |-> payload.sub,
   email |-> payload.email,
   sub |-> payload.sub]

\* idTokenPayload['cognito:username'] || idTokenPayload.sub, email, sub
UserOf(payload) ==
  [username |-> IF payload.cognito_username # "" THEN payload.cognito_username
                ELSE payload.sub,
   email |-> payload.email,
   sub |-> payload.sub]

\* error messages
ErrNull == "null"
NetworkFailed == "Network request failed"
NotAuthorized == "NotAuthorizedException"
NoRefreshToken == "No refresh token available"
Cancelled == "Authentication cancelled or failed"
NoCode == "No authorization code received"
NoVerifier == "Code verifier not found"
ExchangeFailed == "Failed to exchange code for tokens"
Undecodable == "JSON Parse error"
StorageFailed == "Could not delete the value"

\* ----------------------------------------------------------------- state
VARIABLES
  store,        \* the Credential Store: key -> value or Null
  userState,    \* the user slice of the redux store (UserState)
  now,          \* Math.floor(Date.now() / 1000)
  pc,           \* where each thunk / tick invocation is suspended
  loc,          \* the local variables of each invocation
  intervalRef,  \* TokenRefreshManager: intervalRef.current, Null or a timer handle
  timers,       \* the interval timers the runtime holds (set, not yet cleared)
  mountCheck,   \* TokenRefreshManager: the on-activation check has yet to start
  firedMidRenewal, \* history: the tick started while a tick's renewal was in flight
  raced,        \* history: signOut settled while this renewal's request was out
  ops           \* thunks dispatched by the user interface so far

vars == <<store, userState, now, pc, loc, intervalRef, timers, mountCheck,
          firedMidRenewal, raced, ops>>

\* invocations in flight: <<name, slot>>
Ticks == {<<"checkAndRefreshToken", i>> : i \in 1..MaxTicks}
CAS == <<"checkAuthStatus", 1>>
SI == <<"signIn", 1>>
SI2 == <<"signIn", 2>>
SO == <<"signOut", 1>>
GAT == <<"getAuthToken", 1>>
LI == <<"listItems", 1>>      \* createItem, updateItemAsync or deleteItem
SU == <<"signUp", 1>>
CSU == <<"confirmSignUp", 1>>
PkceSignIns == {SI, SI2}
Hosts == Ticks \cup {CAS}          \* invocations that dispatch refreshToken
Procs == Hosts \cup {SI, SI2, SO, GAT, LI, SU, CSU}
\* the root component: "start" before its first render, then "mounted", and
\* "unmounted" once the tree is torn down
ROOT == <<"RootLayout", 1>>

NoLoc == [refreshTokenValue |-> Null, accessToken |-> Null, idToken |-> Null,
          newRefresh |-> Null, codeVerifier |-> Null, codeVerifierRead |-> Null,
          examined |-> Null, timeUntilExpiry |-> 0, headers |-> Null,
          failure |-> ErrNull]

initialState == [isAuthenticated |-> FALSE, isLoading |-> FALSE,
                 user |-> Null, tokens |-> Null, error |-> ErrNull]

EmptyStore == [k \in Keys |-> Null]

\* What a previous run of the app may have left in the Credential Store.
PersistedStores ==
  {EmptyStore} \cup
  {[EmptyStore EXCEPT ![ACCESS_TOKEN_KEY] = AccessToken(PersistedExp),
                      ![ID_TOKEN_KEY] = IdToken(PersistedExp, "u1"),
                      ![REFRESH_TOKEN_KEY] = r] : r \in {Null, RefreshToken(0 - 1)}}

Init ==
  /\ store \in PersistedStores
  /\ userState = initialState
  /\ now = 0
  /\ pc = [p \in Procs \cup {ROOT} |-> IF p = ROOT THEN "start" ELSE "idle"]
  /\ loc = [p \in Procs |-> NoLoc]
  /\ intervalRef = Null
  /\ timers = {}
  /\ mountCheck = FALSE
  /\ firedMidRenewal = [p \in Ticks |-> FALSE]
  /\ raced = [p \in Hosts |-> FALSE]
  /\ ops = 0

\* --------------------------------------------------------------- reducers
signUpPending(s) == [s EXCEPT !.isLoading = TRUE, !.error = ErrNull]

signUpFulfilled(s) == [s EXCEPT !.isLoading = FALSE, !.error = ErrNull]

signUpRejected(s, msg) == [s EXCEPT !.isLoading = FALSE, !.error = msg]

confirmSignUpPending(s) == [s EXCEPT !.isLoading = TRUE, !.error = ErrNull]

confirmSignUpFulfilled(s) == [s EXCEPT !.isLoading = FALSE, !.error = ErrNull]

confirmSignUpRejected(s, msg) == [s EXCEPT !.isLoading = FALSE, !.error = msg]

\* "Token fetched, but don't change auth state"
getAuthTokenFulfilled(s) == s

clearError(s) == [s EXCEPT !.error = ErrNull]

signInPending(s) == [s EXCEPT !.isLoading = TRUE, !.error = ErrNull]

signInFulfilled(s, payload) ==
  [s EXCEPT !.isLoading = FALSE, !.isAuthenticated = TRUE,
            !.user = payload.user, !.tokens = payload.tokens, !.error = ErrNull]

signInRejected(s, msg) ==
  [s EXCEPT !.isLoading = FALSE, !.isAuthenticated = FALSE, !.error = msg]

signOutPending(s) == [s EXCEPT !.isLoading = TRUE]

\* mutant: the sign-out reducer forgets the tokens
signOutFulfilled_KeepsTokens(s) ==
  [s EXCEPT !.isLoading = FALSE, !.isAuthenticated = FALSE,
            !.user = Null, !.error = ErrNull]

signOutFulfilled(s) ==
  [s EXCEPT !.isLoading = FALSE, !.isAuthenticated = FALSE,
            !.user = Null, !.tokens = Null, !.error = ErrNull]

signOutRejected(s, msg) == [s EXCEPT !.isLoading = FALSE, !.error = msg]

refreshTokenPending(s) == [s EXCEPT !.isLoading = TRUE, !.error = ErrNull]

refreshTokenFulfilled(s, payload) ==
  [s EXCEPT !.isLoading = FALSE, !.isAuthenticated = TRUE,
            !.user = payload.user, !.tokens = payload.tokens, !.error = ErrNull]

\* mutant: the rejected case forgets to drop the identity and the credentials
refreshTokenRejected_KeepsSession(s, msg) ==
  [s EXCEPT !.isLoading = FALSE, !.isAuthenticated = FALSE, !.error = msg]

refreshTokenRejected(s, msg) ==
  [s EXCEPT !.isLoading = FALSE, !.isAuthenticated = FALSE,
            !.user = Null, !.tokens = Null, !.error = msg]

checkAuthStatusPending(s) == [s EXCEPT !.isLoading = TRUE]

checkAuthStatusFulfilled(s, payload) ==
  IF payload # Null
  THEN [s EXCEPT !.isLoading = FALSE, !.isAuthenticated = TRUE,
                 !.user = payload.user, !.tokens = payload.tokens, !.error = ErrNull]
  ELSE [s EXCEPT !.isLoading = FALSE, !.isAuthenticated = FALSE,
                 !.user = Null, !.tokens = Null, !.error = ErrNull]

checkAuthStatusRejected(s, msg) ==
  [s EXCEPT !.isLoading = FALSE, !.isAuthenticated = FALSE, !.error = msg]

Payload(idToken, accessToken, refreshToken) ==
  [user |-> UserOf(DecodePayload(idToken)),
   tokens |-> [accessToken |-> accessToken, idToken |-> idToken,
               refreshToken |-> refreshToken]]

\* ---------------------------------------------------- TokenRefreshManager
\* tokens?.idToken
IdTokenOf(s) == IF s.tokens = Null THEN Null ELSE s.tokens.idToken

\* the dependency list of the effect: [isAuthenticated, tokens?.idToken]
EffectDeps(s) == <<s.isAuthenticated, IdTokenOf(s)>>

\* !isAuthenticated || !tokens?.idToken  is false
SchedulerActive(s) == s.isAuthenticated /\ IdTokenOf(s) # Null

\* <TokenRefreshManager /> is rendered by RootLayout and its effect is live
Mounted == pc[ROOT] = "mounted"

\* the user interface can dispatch a thunk
CanDispatch == Mounted /\ ops < MaxOps

\* A dispatched action reaches the reducer, the component re-renders, and when
\* a dependency changed the effect's cleanup and body run: the interval is
\* cleared, and (authenticated with an id token) one check starts at once and
\* a new interval is set.
\* setInterval(..., TOKEN_REFRESH_INTERVAL): a new handle, first due one
\* interval from now
NewTimer == [kind |-> "timer", at |-> now + TOKEN_REFRESH_INTERVAL]

\* if (intervalRef.current) clearInterval(intervalRef.current)
ClearInterval == timers \ {intervalRef}

\* mutant: the effect returns no cleanup, the old interval is never cleared
Dispatch_NoCleanup(s) ==
  /\ userState' = s
  /\ IF EffectDeps(s) = EffectDeps(userState)
     THEN UNCHANGED <<intervalRef, timers, mountCheck>>
     ELSE IF SchedulerActive(s)
          THEN /\ intervalRef' = NewTimer
               /\ timers' = timers \cup {NewTimer}
               /\ mountCheck' = TRUE
          ELSE /\ intervalRef' = Null
               /\ timers' = ClearInterval
               /\ mountCheck' = FALSE

Dispatch(s) ==
  /\ userState' = s
  /\ IF EffectDeps(s) = EffectDeps(userState)
     THEN UNCHANGED <<intervalRef, timers, mountCheck>>
     ELSE IF SchedulerActive(s)
          THEN /\ intervalRef' = NewTimer
               /\ timers' = ClearInterval \cup {NewTimer}
               /\ mountCheck' = TRUE
          ELSE /\ intervalRef' = Null
               /\ timers' = ClearInterval
               /\ mountCheck' = FALSE

Goto(p, label) == pc' = [pc EXCEPT ![p] = label]
\* the invocation returns: its locals are gone
Finish(p) ==
  /\ pc' = [pc EXCEPT ![p] = "idle"]
  /\ loc' = [loc EXCEPT ![p] = NoLoc]
  /\ firedMidRenewal' = [q \in Ticks |-> IF q = p THEN FALSE ELSE firedMidRenewal[q]]

\* history only: a refreshToken dispatched by a tick has sent its request to
\* the provider and has not settled yet
RenewalInFlight ==
  \E q \in Ticks :
    \/ pc[q] \in {"rt_fetch", "rt_setAccess", "rt_setId"}
    \/ /\ pc[q] \in {"rt_clearAccess", "rt_clearId", "rt_clearRefresh"}
       /\ loc[q].failure # NoRefreshToken

SetLoc(p, l) == loc' = [loc EXCEPT ![p] = l]
setItem(key, value) == store' = [store EXCEPT ![key] = value]
deleteItem(key) == store' = [store EXCEPT ![key] = Null]

\* what the token endpoint issues at the current time
IssuedAccess == AccessToken(now + TokenLifetime)
IssuedId == Named(IdToken(now + TokenLifetime, "u1"), "alice")

\* ------------------------------------------------------------- RootLayout
\* First render: the Provider holds initialState, TokenRefreshManager mounts
\* and its effect runs with isAuthenticated false: it clears the (absent)
\* interval and returns.  Nothing else is dispatched.
RootLayoutMount ==
  /\ pc[ROOT] = "start"
  /\ Goto(ROOT, "mounted")
  /\ intervalRef' = Null
  /\ timers' = ClearInterval
  /\ mountCheck' = FALSE
  /\ UNCHANGED <<store, userState, now, loc, firedMidRenewal, raced, ops>>

\* Teardown of the root (the app closes): the effect's cleanup clears the
\* interval, and the pending callbacks of the torn-down runtime are dropped.
RootLayoutUnmount ==
  /\ Mounted
  /\ pc' = [p \in DOMAIN pc |-> IF p = ROOT THEN "unmounted" ELSE "idle"]
  /\ loc' = [p \in Procs |-> NoLoc]
  /\ firedMidRenewal' = [p \in Ticks |-> FALSE]
  /\ intervalRef' = Null
  /\ timers' = ClearInterval
  /\ mountCheck' = FALSE
  /\ UNCHANGED <<store, userState, now, raced, ops>>

\* ------------------------------------------------------------------ clock
\* Time passes; a due timer callback and the on-activation check run first.
Advance ==
  /\ Mounted
  /\ now + TimeStep <= MaxTime
  /\ ~mountCheck
  /\ \A t \in timers : now < t.at
  /\ now' = now + TimeStep
  /\ UNCHANGED <<store, userState, pc, loc, intervalRef, timers, mountCheck,
                 firedMidRenewal, raced, ops>>

\* ------------------------------------------- checkAndRefreshToken (a tick)
\* tick slots are interchangeable: a new invocation takes the lowest free one
FreeSlot(p) == /\ pc[p] = "idle"
               /\ \A q \in Ticks : q[2] < p[2] => pc[q] # "idle"

StartTick(p) ==
  /\ Goto(p, "tick_getId")
  /\ firedMidRenewal' = [firedMidRenewal EXCEPT ![p] = RenewalInFlight]
  /\ UNCHANGED <<store, userState, now, loc, raced, ops>>

\* "Check immediately on mount"
TickOnMount(p) ==
  /\ mountCheck
  /\ FreeSlot(p)
  /\ mountCheck' = FALSE
  /\ UNCHANGED <<intervalRef, timers>>
  /\ StartTick(p)

\* the setInterval callback
TickOnInterval(p) ==
  /\ ~mountCheck
  /\ FreeSlot(p)
  /\ \E t \in timers :
       /\ now >= t.at
       /\ timers' = (timers \ {t}) \cup {[t EXCEPT !.at = @ + TOKEN_REFRESH_INTERVAL]}
       /\ intervalRef' = IF intervalRef = t
                         THEN [t EXCEPT !.at = @ + TOKEN_REFRESH_INTERVAL]
                         ELSE intervalRef
  /\ UNCHANGED mountCheck
  /\ StartTick(p)

\* timeUntilExpiry = (idTokenPayload.exp || 0) - currentTime
TimeUntilExpiry(idToken) == DecodePayload(idToken).exp - now

\* mutant: the tick uses the 30 second threshold of checkAuthStatus
TickNeedsRefresh_Threshold30(timeUntilExpiry) == timeUntilExpiry < CHECK_THRESHOLD

\* if (timeUntilExpiry < 60) in checkAndRefreshToken
TickNeedsRefresh(timeUntilExpiry) == timeUntilExpiry < TICK_THRESHOLD

\* mutant: a tick that cannot read an id credential signs the session out
TickGetId_Escalates(p) ==
  /\ pc[p] = "tick_getId"
  /\ IF store[ID_TOKEN_KEY] # Null /\ Decodes(store[ID_TOKEN_KEY])
     THEN /\ IF TickNeedsRefresh(TimeUntilExpiry(store[ID_TOKEN_KEY]))
             THEN /\ Goto(p, "tick_getRefresh")
                  /\ SetLoc(p, [loc[p] EXCEPT !.timeUntilExpiry = TimeUntilExpiry(store[ID_TOKEN_KEY])])
                  /\ UNCHANGED firedMidRenewal
             ELSE Finish(p)
          /\ UNCHANGED <<userState, intervalRef, timers, mountCheck>>
     ELSE /\ Dispatch(refreshTokenRejected(userState, NoRefreshToken))
          /\ Finish(p)
  /\ UNCHANGED <<store, now, raced, ops>>

\* resumes after storage.getItem(ID_TOKEN_KEY): no id token returns, a decode
\* that throws is caught and logged, and the tick returns
TickGetId(p) ==
  /\ pc[p] = "tick_getId"
  /\ IF /\ store[ID_TOKEN_KEY] # Null
        /\ Decodes(store[ID_TOKEN_KEY])
        /\ TickNeedsRefresh(TimeUntilExpiry(store[ID_TOKEN_KEY]))
     THEN /\ Goto(p, "tick_getRefresh")
          /\ SetLoc(p, [loc[p] EXCEPT !.timeUntilExpiry = TimeUntilExpiry(store[ID_TOKEN_KEY])])
          /\ UNCHANGED firedMidRenewal
     ELSE Finish(p)
  /\ UNCHANGED <<store, userState, now, intervalRef, timers, mountCheck, raced, ops>>

\* if (refreshTokenValue) in checkAndRefreshToken
TickDispatches(refreshTokenValue) == refreshTokenValue # Null

\* resumes after storage.getItem(REFRESH_TOKEN_KEY); dispatch(refreshToken())
TickGetRefresh(p) ==
  /\ pc[p] = "tick_getRefresh"
  /\ IF TickDispatches(store[REFRESH_TOKEN_KEY])
     THEN /\ Dispatch(refreshTokenPending(userState))
          /\ Goto(p, "rt_getRefresh")
          /\ SetLoc(p, NoLoc)
          /\ UNCHANGED firedMidRenewal
     ELSE /\ Finish(p)
          /\ UNCHANGED <<userState, intervalRef, timers, mountCheck>>
  /\ UNCHANGED <<store, now, raced, ops>>

\* ------------------------------------------------------ refreshToken thunk
\* mutant: no check for a missing refresh token before the request
RtGetRefresh_NoCheck(p) ==
  /\ pc[p] = "rt_getRefresh"
  /\ Goto(p, "rt_fetch")
  /\ SetLoc(p, [loc[p] EXCEPT !.refreshTokenValue = store[REFRESH_TOKEN_KEY]])
  /\ UNCHANGED <<store, userState, now, intervalRef, timers, mountCheck, firedMidRenewal, raced, ops>>

\* resumes after storage.getItem(REFRESH_TOKEN_KEY); sends the request
RtGetRefresh(p) ==
  /\ pc[p] = "rt_getRefresh"
  /\ IF store[REFRESH_TOKEN_KEY] = Null
     THEN /\ Goto(p, "rt_clearAccess")
          /\ SetLoc(p, [loc[p] EXCEPT !.failure = NoRefreshToken])
     ELSE /\ Goto(p, "rt_fetch")
          /\ SetLoc(p, [loc[p] EXCEPT !.refreshTokenValue = store[REFRESH_TOKEN_KEY]])
  /\ UNCHANGED <<store, userState, now, intervalRef, timers, mountCheck, firedMidRenewal, raced, ops>>

\* the response is ok: tokens extracted, id token decoded
RtFetchOk(p) ==
  /\ pc[p] = "rt_fetch"
  /\ Goto(p, "rt_setAccess")
  /\ SetLoc(p, [loc[p] EXCEPT !.accessToken = IssuedAccess, !.idToken = IssuedId])
  /\ UNCHANGED <<store, userState, now, intervalRef, timers, mountCheck, firedMidRenewal, raced, ops>>

\* fetch throws (NetworkFailed) or !response.ok (NotAuthorized): to the catch
RtFetchFails(p, msg) ==
  /\ pc[p] = "rt_fetch"
  /\ Goto(p, "rt_clearAccess")
  /\ SetLoc(p, [loc[p] EXCEPT !.failure = msg])
  /\ UNCHANGED <<store, userState, now, intervalRef, timers, mountCheck, firedMidRenewal, raced, ops>>

RtSetAccess(p) ==
  /\ pc[p] = "rt_setAccess"
  /\ setItem(ACCESS_TOKEN_KEY, loc[p].accessToken)
  /\ Goto(p, "rt_setId")
  /\ UNCHANGED <<userState, now, loc, intervalRef, timers, mountCheck, firedMidRenewal, raced, ops>>

\* mutant: the payload takes the refresh token from the response, which has none
RefreshPayload_FromResponse(l) == Payload(l.idToken, l.accessToken, l.newRefresh)

\* what the refreshToken thunk returns
RefreshPayload(l) == Payload(l.idToken, l.accessToken, l.refreshTokenValue)

\* the state after refreshToken settles fulfilled on host p; checkAuthStatus
\* returns the same payload and settles fulfilled right after
AfterRefreshFulfilled(p, s, payload) ==
  IF p = CAS
  THEN checkAuthStatusFulfilled(refreshTokenFulfilled(s, payload), payload)
  ELSE refreshTokenFulfilled(s, payload)

\* the state after refreshToken settles rejected on host p; checkAuthStatus
\* returns null and settles fulfilled right after
AfterRefreshRejected(p, s, msg) ==
  IF p = CAS
  THEN checkAuthStatusFulfilled(refreshTokenRejected(s, msg), Null)
  ELSE refreshTokenRejected(s, msg)

RtSetId(p) ==
  /\ pc[p] = "rt_setId"
  /\ setItem(ID_TOKEN_KEY, loc[p].idToken)
  /\ Dispatch(AfterRefreshFulfilled(p, userState, RefreshPayload(loc[p])))
  /\ Finish(p)
  /\ raced' = [raced EXCEPT ![p] = FALSE]
  /\ UNCHANGED <<now, ops>>

\* catch: "If refresh fails, clear all tokens"
RtClearAccess(p) ==
  /\ pc[p] = "rt_clearAccess"
  /\ deleteItem(ACCESS_TOKEN_KEY)
  /\ Goto(p, "rt_clearId")
  /\ UNCHANGED <<userState, now, loc, intervalRef, timers, mountCheck, firedMidRenewal, raced, ops>>

\* mutant: the catch block leaves the id token in the store
RtClearId_Skips(p) ==
  /\ pc[p] = "rt_clearId"
  /\ Goto(p, "rt_clearRefresh")
  /\ UNCHANGED <<store, userState, now, loc, intervalRef, timers, mountCheck, firedMidRenewal, raced, ops>>

RtClearId(p) ==
  /\ pc[p] = "rt_clearId"
  /\ deleteItem(ID_TOKEN_KEY)
  /\ Goto(p, "rt_clearRefresh")
  /\ UNCHANGED <<userState, now, loc, intervalRef, timers, mountCheck, firedMidRenewal, raced, ops>>

RtClearRefresh(p) ==
  /\ pc[p] = "rt_clearRefresh"
  /\ deleteItem(REFRESH_TOKEN_KEY)
  /\ Dispatch(AfterRefreshRejected(p, userState, loc[p].failure))
  /\ Finish(p)
  /\ raced' = [raced EXCEPT ![p] = FALSE]
  /\ UNCHANGED <<now, ops>>

\* --------------------------------------------- signIn thunk (password grant)
SignInStart ==
  /\ CanDispatch
  /\ ops' = ops + 1
  /\ pc[SI] = "idle"
  /\ Dispatch(signInPending(userState))
  /\ Goto(SI, "si_fetch")
  /\ raced' = [p \in Hosts |-> FALSE]
  /\ UNCHANGED <<store, now, loc, firedMidRenewal>>

\* InitiateAuth answers USER_PASSWORD_AUTH with an AuthenticationResult that
\* carries a RefreshToken
RefreshIssued == {TRUE}

SignInFetchOk(withRefresh) ==
  /\ pc[SI] = "si_fetch"
  /\ Goto(SI, "si_setAccess")
  /\ SetLoc(SI, [loc[SI] EXCEPT !.accessToken = IssuedAccess, !.idToken = IssuedId,
                               !.newRefresh = IF withRefresh THEN RefreshToken(now)
                                              ELSE Null])
  /\ UNCHANGED <<store, userState, now, intervalRef, timers, mountCheck, firedMidRenewal, raced, ops>>

SignInFetchFails(msg) ==
  /\ pc[SI] = "si_fetch"
  /\ Dispatch(signInRejected(userState, msg))
  /\ Finish(SI)
  /\ UNCHANGED <<store, now, raced, ops>>

SignInPayload(l) == Payload(l.idToken, l.accessToken, l.newRefresh)

SignInSetAccess ==
  /\ pc[SI] = "si_setAccess"
  /\ setItem(ACCESS_TOKEN_KEY, loc[SI].accessToken)
  /\ Goto(SI, "si_setId")
  /\ UNCHANGED <<userState, now, loc, intervalRef, timers, mountCheck, firedMidRenewal, raced, ops>>

\* if (refreshToken) one more write follows, else the thunk returns
SignInSetId ==
  /\ pc[SI] = "si_setId"
  /\ setItem(ID_TOKEN_KEY, loc[SI].idToken)
  /\ IF loc[SI].newRefresh # Null
     THEN /\ Goto(SI, "si_setRefresh")
          /\ UNCHANGED <<userState, loc, intervalRef, timers, mountCheck, firedMidRenewal>>
     ELSE /\ Dispatch(signInFulfilled(userState, SignInPayload(loc[SI])))
          /\ Finish(SI)
  /\ UNCHANGED <<now, raced, ops>>

SignInSetRefresh ==
  /\ pc[SI] = "si_setRefresh"
  /\ setItem(REFRESH_TOKEN_KEY, loc[SI].newRefresh)
  /\ Dispatch(signInFulfilled(userState, SignInPayload(loc[SI])))
  /\ Finish(SI)
  /\ UNCHANGED <<now, raced, ops>>

\* ------------------------------------------------------------ signOut thunk
SignOutStart ==
  /\ CanDispatch
  /\ ops' = ops + 1
  /\ pc[SO] = "idle"
  /\ Dispatch(signOutPending(userState))
  /\ Goto(SO, "so_delAccess")
  /\ UNCHANGED <<store, now, loc, firedMidRenewal, raced>>

SignOutDelAccess ==
  /\ pc[SO] = "so_delAccess"
  /\ deleteItem(ACCESS_TOKEN_KEY)
  /\ Goto(SO, "so_delId")
  /\ UNCHANGED <<userState, now, loc, intervalRef, timers, mountCheck, firedMidRenewal, raced, ops>>

SignOutDelId ==
  /\ pc[SO] = "so_delId"
  /\ deleteItem(ID_TOKEN_KEY)
  /\ Goto(SO, "so_delRefresh")
  /\ UNCHANGED <<userState, now, loc, intervalRef, timers, mountCheck, firedMidRenewal, raced, ops>>

\* the last delete of the password-grant slice; the thunk settles fulfilled
SignOutDelRefresh ==
  /\ pc[SO] = "so_delRefresh"
  /\ deleteItem(REFRESH_TOKEN_KEY)
  /\ Dispatch(signOutFulfilled(userState))
  /\ Finish(SO)
  /\ raced' = [p \in Hosts |-> pc[p] = "rt_fetch"]
  /\ UNCHANGED <<now, ops>>

\* mutant: no catch around the deletes: the rejection escapes, no reducer case
\* runs and the operation never settles
SignOutFails_Unhandled ==
  /\ pc[SO] \in {"so_delAccess", "so_delId", "so_delRefresh"}
  /\ Goto(SO, "so_thrown")
  /\ UNCHANGED <<store, userState, now, loc, intervalRef, timers, mountCheck, firedMidRenewal, raced, ops>>

\* a storage.deleteItem of signOut rejects: the catch returns rejectWithValue and
\* the remaining deletes do not run
SignOutFails ==
  /\ pc[SO] \in {"so_delAccess", "so_delId", "so_delRefresh"}
  /\ Dispatch(signOutRejected(userState, StorageFailed))
  /\ Finish(SO)
  /\ UNCHANGED <<store, now, raced, ops>>

\* ---------------------------------- checkAuthStatus thunk (password grant)
CheckStart ==
  /\ CanDispatch
  /\ ops' = ops + 1
  /\ pc[CAS] = "idle"
  /\ Dispatch(checkAuthStatusPending(userState))
  /\ Goto(CAS, "cas_getId")
  /\ UNCHANGED <<store, now, loc, firedMidRenewal, raced>>

\* mutant: the comparison is inverted
CheckNeedsRefresh_Inverted(timeUntilExpiry) == timeUntilExpiry > CHECK_THRESHOLD

\* if (timeUntilExpiry < 30) in checkAuthStatus
CheckNeedsRefresh(timeUntilExpiry) == timeUntilExpiry < CHECK_THRESHOLD

\* resumes after storage.getItem(ID_TOKEN_KEY); a decode that throws goes to
\* the catch, which settles the thunk rejected
CheckGetId ==
  /\ pc[CAS] = "cas_getId"
  /\ IF store[ID_TOKEN_KEY] = Null
     THEN /\ Dispatch(checkAuthStatusFulfilled(userState, Null))
          /\ Finish(CAS)
     ELSE IF ~Decodes(store[ID_TOKEN_KEY])
     THEN /\ Dispatch(checkAuthStatusRejected(userState, Undecodable))
          /\ Finish(CAS)
     ELSE /\ SetLoc(CAS, [loc[CAS] EXCEPT
                     !.idToken = store[ID_TOKEN_KEY],
                     !.examined = store[ID_TOKEN_KEY],
                     !.timeUntilExpiry = TimeUntilExpiry(store[ID_TOKEN_KEY])])
          /\ IF CheckNeedsRefresh(TimeUntilExpiry(store[ID_TOKEN_KEY]))
             THEN Goto(CAS, "cas_getRefresh")
             ELSE Goto(CAS, "cas_getAccess")
          /\ UNCHANGED <<userState, intervalRef, timers, mountCheck, firedMidRenewal>>
  /\ UNCHANGED <<store, now, raced, ops>>

\* resumes after storage.getItem(REFRESH_TOKEN_KEY) in the expiring branch
CheckGetRefresh ==
  /\ pc[CAS] = "cas_getRefresh"
  /\ IF store[REFRESH_TOKEN_KEY] # Null
     THEN /\ Dispatch(refreshTokenPending(userState))
          /\ Goto(CAS, "rt_getRefresh")
          /\ SetLoc(CAS, [NoLoc EXCEPT !.examined = loc[CAS].examined,
                                       !.timeUntilExpiry = loc[CAS].timeUntilExpiry])
     ELSE /\ Goto(CAS, "cas_clearAccess")
          /\ UNCHANGED <<userState, loc, intervalRef, timers, mountCheck>>
  /\ UNCHANGED <<store, now, firedMidRenewal, raced, ops>>

CheckClearAccess ==
  /\ pc[CAS] = "cas_clearAccess"
  /\ deleteItem(ACCESS_TOKEN_KEY)
  /\ Goto(CAS, "cas_clearId")
  /\ UNCHANGED <<userState, now, loc, intervalRef, timers, mountCheck, firedMidRenewal, raced, ops>>

CheckClearId ==
  /\ pc[CAS] = "cas_clearId"
  /\ deleteItem(ID_TOKEN_KEY)
  /\ Dispatch(checkAuthStatusFulfilled(userState, Null))
  /\ Finish(CAS)
  /\ UNCHANGED <<now, raced, ops>>

CheckGetAccess ==
  /\ pc[CAS] = "cas_getAccess"
  /\ SetLoc(CAS, [loc[CAS] EXCEPT !.accessToken = store[ACCESS_TOKEN_KEY]])
  /\ Goto(CAS, "cas_getRefresh2")
  /\ UNCHANGED <<store, userState, now, intervalRef, timers, mountCheck, firedMidRenewal, raced, ops>>

\* refreshToken: await storage.getItem(REFRESH_TOKEN_KEY) ; return
CheckReturn ==
  /\ pc[CAS] = "cas_getRefresh2"
  /\ Dispatch(checkAuthStatusFulfilled(userState,
        Payload(loc[CAS].idToken, loc[CAS].accessToken, store[REFRESH_TOKEN_KEY])))
  /\ Finish(CAS)
  /\ UNCHANGED <<store, now, raced, ops>>

\* ------------------------------------------------------------ specification
Tick(p) ==
  \/ TickOnMount(p)
  \/ TickOnInterval(p)
  \/ TickGetId(p)
  \/ TickGetRefresh(p)

RefreshTokenThunk(p) ==
  \/ RtGetRefresh(p)
  \/ RtFetchOk(p)
  \/ RtFetchFails(p, NetworkFailed)
  \/ RtFetchFails(p, NotAuthorized)
  \/ RtSetAccess(p)
  \/ RtSetId(p)
  \/ RtClearAccess(p)
  \/ RtClearId(p)
  \/ RtClearRefresh(p)

SignInThunk ==
  \/ SignInStart
  \/ \E withRefresh \in RefreshIssued : SignInFetchOk(withRefresh)
  \/ SignInFetchFails(NetworkFailed)
  \/ SignInFetchFails(NotAuthorized)
  \/ SignInSetAccess
  \/ SignInSetId
  \/ SignInSetRefresh

SignOutThunk ==
  \/ SignOutStart
  \/ SignOutDelAccess
  \/ SignOutDelId
  \/ SignOutDelRefresh
  \/ SignOutFails

CheckAuthStatusThunk ==
  \/ CheckStart
  \/ CheckGetId
  \/ CheckGetRefresh
  \/ CheckClearAccess
  \/ CheckClearId
  \/ CheckGetAccess
  \/ CheckReturn

Next ==
  \/ RootLayoutMount
  \/ RootLayoutUnmount
  \/ Advance
  \/ \E p \in Ticks : Tick(p)
  \/ \E p \in Hosts : RefreshTokenThunk(p)
  \/ SignInThunk
  \/ SignOutThunk
  \/ CheckAuthStatusThunk

Spec == Init /\ [][Next]_vars

\* ================================================= the PKCE build of the slice
\* RootLayout renders <TokenRefreshManager /> over this slice as well.
PkceDispatch(s) == Dispatch(s)

\* ------------------------------------------------------ signIn thunk (PKCE)
\* sign-in slots are interchangeable: an overlapping call takes the second
FreeSignIn(p) == pc[p] = "idle" /\ (p = SI2 => pc[SI] # "idle")

\* dispatch; generateRandomString, generateCodeChallenge
PkceSignInStart(p) ==
  /\ CanDispatch
  /\ ops' = ops + 1
  /\ FreeSignIn(p)
  /\ PkceDispatch(signInPending(userState))
  /\ Goto(p, "pk_setVerifier")
  /\ SetLoc(p, [loc[p] EXCEPT !.codeVerifier = CodeVerifier(ops + 1)])
  /\ UNCHANGED <<store, now, firedMidRenewal, raced>>

\* SecureStore.setItemAsync('code_verifier', codeVerifier); the browser opens
PkceSetVerifier(p) ==
  /\ pc[p] = "pk_setVerifier"
  /\ setItem(CODE_VERIFIER_KEY, loc[p].codeVerifier)
  /\ Goto(p, "pk_browser")
  /\ UNCHANGED <<userState, now, loc, intervalRef, timers, mountCheck, firedMidRenewal, raced, ops>>

\* what WebBrowser.openAuthSessionAsync resolves to
BrowserResults == {"success_with_code", "success_without_code", "cancel", "dismiss"}

\* result.type === 'success' && result.url, and the url carries a code
PkceBrowserReturns(p, result) ==
  /\ pc[p] = "pk_browser"
  /\ IF result = "success_with_code"
     THEN /\ Goto(p, "pk_getVerifier")
          /\ UNCHANGED <<userState, loc, intervalRef, timers, mountCheck, firedMidRenewal>>
     ELSE /\ PkceDispatch(signInRejected(userState,
                 IF result = "success_without_code" THEN NoCode ELSE Cancelled))
          /\ Finish(p)
  /\ UNCHANGED <<store, now, raced, ops>>

\* resumes after SecureStore.getItemAsync('code_verifier'); sends the exchange
PkceGetVerifier(p) ==
  /\ pc[p] = "pk_getVerifier"
  /\ IF store[CODE_VERIFIER_KEY] = Null
     THEN /\ PkceDispatch(signInRejected(userState, NoVerifier))
          /\ Finish(p)
     ELSE /\ Goto(p, "pk_fetch")
          /\ SetLoc(p, [loc[p] EXCEPT !.codeVerifierRead = store[CODE_VERIFIER_KEY]])
          /\ UNCHANGED <<userState, intervalRef, timers, mountCheck, firedMidRenewal>>
  /\ UNCHANGED <<store, now, raced, ops>>

\* the token endpoint answers ok; refresh_token may be absent
PkceFetchOk(p, withRefresh) ==
  /\ pc[p] = "pk_fetch"
  /\ Goto(p, "pk_setAccess")
  /\ SetLoc(p, [loc[p] EXCEPT !.accessToken = IssuedAccess, !.idToken = IssuedId,
                               !.newRefresh = IF withRefresh THEN RefreshToken(now)
                                              ELSE Null])
  /\ UNCHANGED <<store, userState, now, intervalRef, timers, mountCheck, firedMidRenewal, raced, ops>>

\* fetch throws, or !tokenResponse.ok
PkceFetchFails(p, msg) ==
  /\ pc[p] = "pk_fetch"
  /\ PkceDispatch(signInRejected(userState, msg))
  /\ Finish(p)
  /\ UNCHANGED <<store, now, raced, ops>>

\* mutant: the access credential is stored before the id_token is decoded
PkceFetchUndecodable_StoresFirst(p) ==
  /\ pc[p] = "pk_fetch"
  /\ setItem(ACCESS_TOKEN_KEY, IssuedAccess)
  /\ PkceDispatch(signInRejected(userState, Undecodable))
  /\ Finish(p)
  /\ UNCHANGED <<now, raced, ops>>

\* the token endpoint answers ok with an id_token that does not decode: split,
\* atob or JSON.parse throws before anything is stored
PkceFetchUndecodable(p) ==
  /\ pc[p] = "pk_fetch"
  /\ PkceDispatch(signInRejected(userState, Undecodable))
  /\ Finish(p)
  /\ UNCHANGED <<store, now, raced, ops>>

PkceSetAccess(p) ==
  /\ pc[p] = "pk_setAccess"
  /\ setItem(ACCESS_TOKEN_KEY, loc[p].accessToken)
  /\ Goto(p, "pk_setId")
  /\ UNCHANGED <<userState, now, loc, intervalRef, timers, mountCheck, firedMidRenewal, raced, ops>>

PkceSetId(p) ==
  /\ pc[p] = "pk_setId"
  /\ setItem(ID_TOKEN_KEY, loc[p].idToken)
  /\ IF loc[p].newRefresh # Null
     THEN /\ Goto(p, "pk_setRefresh")
          /\ UNCHANGED <<userState, loc, intervalRef, timers, mountCheck, firedMidRenewal>>
     ELSE /\ PkceDispatch(signInFulfilled(userState, SignInPayload(loc[p])))
          /\ Finish(p)
  /\ UNCHANGED <<now, raced, ops>>

\* mutant: the sign-in settles without persisting the refresh credential
PkceSetRefresh_NotStored(p) ==
  /\ pc[p] = "pk_setRefresh"
  /\ PkceDispatch(signInFulfilled(userState, SignInPayload(loc[p])))
  /\ Finish(p)
  /\ UNCHANGED <<store, now, raced, ops>>

PkceSetRefresh(p) ==
  /\ pc[p] = "pk_setRefresh"
  /\ setItem(REFRESH_TOKEN_KEY, loc[p].newRefresh)
  /\ PkceDispatch(signInFulfilled(userState, SignInPayload(loc[p])))
  /\ Finish(p)
  /\ UNCHANGED <<now, raced, ops>>

\* ----------------------------------------------------- signOut thunk (PKCE)
PkceSignOutStart ==
  /\ CanDispatch
  /\ ops' = ops + 1
  /\ pc[SO] = "idle"
  /\ PkceDispatch(signOutPending(userState))
  /\ Goto(SO, "pk_delAccess")
  /\ UNCHANGED <<store, now, loc, firedMidRenewal, raced>>

\* one of the first three deletes of signOut, then the next
PkceSignOutDelete(label, key, next) ==
  /\ pc[SO] = label
  /\ deleteItem(key)
  /\ Goto(SO, next)
  /\ UNCHANGED <<userState, now, loc, intervalRef, timers, mountCheck, firedMidRenewal, raced, ops>>

\* SecureStore.deleteItemAsync('code_verifier'); the thunk settles fulfilled
PkceSignOutDelVerifier ==
  /\ pc[SO] = "pk_delVerifier"
  /\ deleteItem(CODE_VERIFIER_KEY)
  /\ PkceDispatch(signOutFulfilled(userState))
  /\ Finish(SO)
  /\ UNCHANGED <<now, raced, ops>>

\* a SecureStore.deleteItemAsync of signOut rejects: the catch returns
\* rejectWithValue and the remaining deletes do not run
PkceSignOutFails ==
  /\ pc[SO] \in {"pk_delAccess", "pk_delId", "pk_delRefresh", "pk_delVerifier"}
  /\ PkceDispatch(signOutRejected(userState, StorageFailed))
  /\ Finish(SO)
  /\ UNCHANGED <<store, now, raced, ops>>

\* ----------------------------------------------- checkAuthStatus thunk (PKCE)
PkceCheckStart ==
  /\ CanDispatch
  /\ ops' = ops + 1
  /\ pc[CAS] = "idle"
  /\ PkceDispatch(checkAuthStatusPending(userState))
  /\ Goto(CAS, "pk_casGetId")
  /\ UNCHANGED <<store, now, loc, firedMidRenewal, raced>>

\* if (idTokenPayload.exp && idTokenPayload.exp < currentTime)
PkceExpired(payload) == payload.exp # 0 /\ payload.exp < now

\* resumes after SecureStore.getItemAsync(ID_TOKEN_KEY); a decode that throws
\* goes to the catch, which settles the thunk rejected
PkceCheckGetId ==
  /\ pc[CAS] = "pk_casGetId"
  /\ IF store[ID_TOKEN_KEY] = Null
     THEN /\ PkceDispatch(checkAuthStatusFulfilled(userState, Null))
          /\ Finish(CAS)
     ELSE IF ~Decodes(store[ID_TOKEN_KEY])
     THEN /\ PkceDispatch(checkAuthStatusRejected(userState, Undecodable))
          /\ Finish(CAS)
     ELSE /\ SetLoc(CAS, [loc[CAS] EXCEPT !.idToken = store[ID_TOKEN_KEY]])
          /\ IF PkceExpired(DecodePayload(store[ID_TOKEN_KEY]))
             THEN Goto(CAS, "pk_casGetRefresh")
             ELSE Goto(CAS, "pk_casGetAccess")
          /\ UNCHANGED <<userState, intervalRef, timers, mountCheck, firedMidRenewal>>
  /\ UNCHANGED <<store, now, raced, ops>>

\* expired: both branches delete access and id; with a refresh token stored the
\* refresh token is deleted too ("TODO: Implement token refresh logic")
PkceCheckGetRefresh ==
  /\ pc[CAS] = "pk_casGetRefresh"
  /\ Goto(CAS, "pk_casClearAccess")
  /\ SetLoc(CAS, [loc[CAS] EXCEPT !.refreshTokenValue = store[REFRESH_TOKEN_KEY]])
  /\ UNCHANGED <<store, userState, now, intervalRef, timers, mountCheck, firedMidRenewal, raced, ops>>

PkceCheckClearAccess ==
  /\ pc[CAS] = "pk_casClearAccess"
  /\ deleteItem(ACCESS_TOKEN_KEY)
  /\ Goto(CAS, "pk_casClearId")
  /\ UNCHANGED <<userState, now, loc, intervalRef, timers, mountCheck, firedMidRenewal, raced, ops>>

PkceCheckClearId ==
  /\ pc[CAS] = "pk_casClearId"
  /\ deleteItem(ID_TOKEN_KEY)
  /\ IF loc[CAS].refreshTokenValue # Null
     THEN /\ Goto(CAS, "pk_casClearRefresh")
          /\ UNCHANGED <<userState, loc, intervalRef, timers, mountCheck, firedMidRenewal>>
     ELSE /\ PkceDispatch(checkAuthStatusFulfilled(userState, Null))
          /\ Finish(CAS)
  /\ UNCHANGED <<now, raced, ops>>

PkceCheckClearRefresh ==
  /\ pc[CAS] = "pk_casClearRefresh"
  /\ deleteItem(REFRESH_TOKEN_KEY)
  /\ PkceDispatch(checkAuthStatusFulfilled(userState, Null))
  /\ Finish(CAS)
  /\ UNCHANGED <<now, raced, ops>>

PkceCheckGetAccess ==
  /\ pc[CAS] = "pk_casGetAccess"
  /\ SetLoc(CAS, [loc[CAS] EXCEPT !.accessToken = store[ACCESS_TOKEN_KEY]])
  /\ Goto(CAS, "pk_casGetRefresh2")
  /\ UNCHANGED <<store, userState, now, intervalRef, timers, mountCheck, firedMidRenewal, raced, ops>>

PkceCheckReturn ==
  /\ pc[CAS] = "pk_casGetRefresh2"
  /\ PkceDispatch(checkAuthStatusFulfilled(userState,
        Payload(loc[CAS].idToken, loc[CAS].accessToken, store[REFRESH_TOKEN_KEY])))
  /\ Finish(CAS)
  /\ UNCHANGED <<store, now, raced, ops>>

PkceSignInThunk(p) ==
  \/ PkceSignInStart(p)
  \/ PkceSetVerifier(p)
  \/ \E result \in BrowserResults : PkceBrowserReturns(p, result)
  \/ PkceGetVerifier(p)
  \/ \E withRefresh \in BOOLEAN : PkceFetchOk(p, withRefresh)
  \/ PkceFetchFails(p, NetworkFailed)
  \/ PkceFetchFails(p, ExchangeFailed)
  \/ PkceFetchUndecodable(p)
  \/ PkceSetAccess(p)
  \/ PkceSetId(p)
  \/ PkceSetRefresh(p)

PkceSignOutThunk ==
  \/ PkceSignOutStart
  \/ PkceSignOutDelete("pk_delAccess", ACCESS_TOKEN_KEY, "pk_delId")
  \/ PkceSignOutDelete("pk_delId", ID_TOKEN_KEY, "pk_delRefresh")
  \/ PkceSignOutDelete("pk_delRefresh", REFRESH_TOKEN_KEY, "pk_delVerifier")
  \/ PkceSignOutDelVerifier
  \/ PkceSignOutFails

PkceCheckAuthStatusThunk ==
  \/ PkceCheckStart
  \/ PkceCheckGetId
  \/ PkceCheckGetRefresh
  \/ PkceCheckClearAccess
  \/ PkceCheckClearId
  \/ PkceCheckClearRefresh
  \/ PkceCheckGetAccess
  \/ PkceCheckReturn

NextPkce ==
  \/ RootLayoutMount
  \/ RootLayoutUnmount
  \/ Advance
  \/ \E p \in Ticks : Tick(p)
  \/ \E p \in Ticks : RefreshTokenThunk(p)
  \/ \E p \in PkceSignIns : PkceSignInThunk(p)
  \/ PkceSignOutThunk
  \/ PkceCheckAuthStatusThunk

SpecPkce == Init /\ [][NextPkce]_vars

\* ============================================== the slice under any actions
\* The reducer of the user slice, driven by every action a thunk can dispatch
\* (pending, fulfilled with a payload, rejected with a message) and by
\* clearError, in any order.
Payloads ==
  {Payload(IdToken(e, "u1"), AccessToken(e), r) :
     e \in {PersistedExp, TokenLifetime}, r \in {Null, RefreshToken(0)}}

Messages == {NetworkFailed, NotAuthorized, NoRefreshToken, StorageFailed}

\* the reducer case runs; the effect of TokenRefreshManager follows the state
Reduce(s) ==
  /\ Mounted
  /\ Dispatch(s)
  /\ UNCHANGED <<store, now, pc, loc, firedMidRenewal, raced, ops>>

SliceSignUp ==
  \E s \in {signUpPending(userState), signUpFulfilled(userState)}
           \cup {signUpRejected(userState, msg) : msg \in Messages} : Reduce(s)

SliceConfirmSignUp ==
  \E s \in {confirmSignUpPending(userState), confirmSignUpFulfilled(userState)}
           \cup {confirmSignUpRejected(userState, msg) : msg \in Messages} : Reduce(s)

SliceSignIn ==
  \E s \in {signInPending(userState)}
           \cup {signInFulfilled(userState, payload) : payload \in Payloads}
           \cup {signInRejected(userState, msg) : msg \in Messages} : Reduce(s)

SliceSignOut ==
  \E s \in {signOutPending(userState), signOutFulfilled(userState)}
           \cup {signOutRejected(userState, msg) : msg \in Messages} : Reduce(s)

SliceRefreshToken ==
  \E s \in {refreshTokenPending(userState)}
           \cup {refreshTokenFulfilled(userState, payload) : payload \in Payloads}
           \cup {refreshTokenRejected(userState, msg) : msg \in Messages} : Reduce(s)

SliceCheckAuthStatus ==
  \E s \in {checkAuthStatusPending(userState)}
           \cup {checkAuthStatusFulfilled(userState, payload) :
                   payload \in Payloads \cup {Null}}
           \cup {checkAuthStatusRejected(userState, msg) : msg \in Messages} : Reduce(s)

SliceGetAuthToken == Reduce(getAuthTokenFulfilled(userState))

SliceClearError == Reduce(clearError(userState))

NextSlice ==
  \/ RootLayoutMount
  \/ SliceSignUp
  \/ SliceConfirmSignUp
  \/ SliceSignIn
  \/ SliceSignOut
  \/ SliceRefreshToken
  \/ SliceCheckAuthStatus
  \/ SliceGetAuthToken
  \/ SliceClearError

SpecSlice == Init /\ [][NextSlice]_vars

\* ====================================== every thunk, each step taken in time
\* ------------------------------------------- signUp and confirmSignUp thunks
SignUpStart ==
  /\ CanDispatch
  /\ ops' = ops + 1
  /\ pc[SU] = "idle"
  /\ Dispatch(signUpPending(userState))
  /\ Goto(SU, "su_fetch")
  /\ UNCHANGED <<store, now, loc, firedMidRenewal, raced>>

\* the SignUp request is answered (msg null) or fails: fetch throws or
\* !response.ok, and the catch returns rejectWithValue
SignUpReturns(msg) ==
  /\ pc[SU] = "su_fetch"
  /\ Dispatch(IF msg = ErrNull THEN signUpFulfilled(userState)
                               ELSE signUpRejected(userState, msg))
  /\ Finish(SU)
  /\ UNCHANGED <<store, now, raced, ops>>

ConfirmSignUpStart ==
  /\ CanDispatch
  /\ ops' = ops + 1
  /\ pc[CSU] = "idle"
  /\ Dispatch(confirmSignUpPending(userState))
  /\ Goto(CSU, "csu_fetch")
  /\ UNCHANGED <<store, now, loc, firedMidRenewal, raced>>

ConfirmSignUpReturns(msg) ==
  /\ pc[CSU] = "csu_fetch"
  /\ Dispatch(IF msg = ErrNull THEN confirmSignUpFulfilled(userState)
                               ELSE confirmSignUpRejected(userState, msg))
  /\ Finish(CSU)
  /\ UNCHANGED <<store, now, raced, ops>>

\* the scheduler's checks run one at a time here: a callback that comes due
\* while a check is under way starts when that check has returned (Spec has
\* the overlapping checks)
TICK == <<"checkAndRefreshToken", 1>>

\* The clock is not counted past MaxTime, and the interval still elapses: the
\* callback of the handle due first comes due again.
IntervalElapses ==
  /\ Mounted
  /\ now + TimeStep > MaxTime
  /\ ~mountCheck
  /\ \A t \in timers : now < t.at
  /\ \E t \in timers :
       /\ \A u \in timers : t.at <= u.at
       /\ timers' = (timers \ {t}) \cup {[t EXCEPT !.at = now]}
       /\ intervalRef' = IF intervalRef = t THEN [t EXCEPT !.at = now] ELSE intervalRef
  /\ UNCHANGED <<store, userState, now, pc, loc, mountCheck, firedMidRenewal, raced, ops>>

\* The password-grant build while the app stays open.
NextLive ==
  \/ RootLayoutMount
  \/ Advance
  \/ IntervalElapses
  \/ Tick(TICK)
  \/ \E p \in {TICK, CAS} : RefreshTokenThunk(p)
  \/ SignInThunk
  \/ SignOutThunk
  \/ CheckAuthStatusThunk
  \/ SignUpStart
  \/ \E msg \in {ErrNull, NetworkFailed} : SignUpReturns(msg)
  \/ ConfirmSignUpStart
  \/ \E msg \in {ErrNull, NetworkFailed} : ConfirmSignUpReturns(msg)

\* The runtime runs every continuation that is ready: the first render, a due
\* timer callback, the continuation of a storage or network call that has
\* returned or failed.  The clock runs on.  Nothing obliges the user to
\* dispatch a thunk.
Fairness ==
  /\ WF_vars(RootLayoutMount)
  /\ WF_vars(Advance)
  /\ WF_vars(IntervalElapses)
  /\ WF_vars(Tick(TICK))
  /\ \A p \in {TICK, CAS} : WF_vars(RefreshTokenThunk(p))
  /\ WF_vars(pc[SI] # "idle" /\ SignInThunk)
  /\ WF_vars(pc[SO] # "idle" /\ SignOutThunk)
  /\ WF_vars(pc[CAS] # "idle" /\ CheckAuthStatusThunk)
  /\ WF_vars(\E msg \in {ErrNull, NetworkFailed} : SignUpReturns(msg))
  /\ WF_vars(\E msg \in {ErrNull, NetworkFailed} : ConfirmSignUpReturns(msg))

SpecLive == Init /\ [][NextLive]_vars /\ Fairness

\* ================================ the client around the slice (PKCE build)
\* What may be found under the id key besides the token of PersistedStores: a
\* value that does not decode, a token whose payload has no exp (exp 0 here:
\* the code reads `exp || 0` and `exp && ...`), and a token whose payload has
\* no sub ("").
LeftoverStores ==
  {[EmptyStore EXCEPT ![ACCESS_TOKEN_KEY] = AccessToken(PersistedExp),
                      ![ID_TOKEN_KEY] = t,
                      ![REFRESH_TOKEN_KEY] = RefreshToken(0 - 1)] :
     t \in {Garbled, IdToken(0, "u1"), IdToken(PersistedExp, "")}}

InitClient ==
  /\ store \in PersistedStores \cup LeftoverStores
  /\ userState = initialState
  /\ now = 0
  /\ pc = [p \in Procs \cup {ROOT} |-> IF p = ROOT THEN "start" ELSE "idle"]
  /\ loc = [p \in Procs |-> NoLoc]
  /\ intervalRef = Null
  /\ timers = {}
  /\ mountCheck = FALSE
  /\ firedMidRenewal = [p \in Ticks |-> FALSE]
  /\ raced = [p \in Hosts |-> FALSE]
  /\ ops = 0

\* ------------------------------------------------------- getAuthToken thunk
\* dispatch(getAuthToken()): pending has no reducer case
GetAuthTokenStart ==
  /\ CanDispatch
  /\ ops' = ops + 1
  /\ pc[GAT] = "idle"
  /\ Goto(GAT, "gat_getId")
  /\ UNCHANGED <<store, userState, now, loc, intervalRef, timers, mountCheck,
                 firedMidRenewal, raced>>

\* resumes after SecureStore.getItemAsync(ID_TOKEN_KEY); return idToken
GetAuthTokenGetId ==
  /\ pc[GAT] = "gat_getId"
  /\ Goto(GAT, "gat_return")
  /\ SetLoc(GAT, [loc[GAT] EXCEPT !.idToken = store[ID_TOKEN_KEY]])
  /\ UNCHANGED <<store, userState, now, intervalRef, timers, mountCheck,
                 firedMidRenewal, raced, ops>>

\* the thunk settles fulfilled with the token as payload
GetAuthTokenReturn ==
  /\ pc[GAT] = "gat_return"
  /\ Dispatch(getAuthTokenFulfilled(userState))
  /\ Finish(GAT)
  /\ UNCHANGED <<store, now, raced, ops>>

\* ------------------------------- createItem, updateItemAsync, deleteItem
\* if (token) headers['Authorization'] = `Bearer ${token}`
getAuthHeaders(token) == [Authorization |-> token]

\* getState(); state.user.tokens?.idToken || null; fetch(..., getAuthHeaders)
ListItemsRequest(thunk) ==
  /\ Mounted
  /\ pc[LI] = "idle"
  /\ Goto(LI, "li_fetch")
  /\ SetLoc(LI, [loc[LI] EXCEPT !.headers = getAuthHeaders(IdTokenOf(userState))])
  /\ UNCHANGED <<store, userState, now, intervalRef, timers, mountCheck,
                 firedMidRenewal, raced, ops>>

\* the resource server answers; the thunk settles in the listItems slice
ListItemsSettle ==
  /\ pc[LI] = "li_fetch"
  /\ Finish(LI)
  /\ UNCHANGED <<store, userState, now, intervalRef, timers, mountCheck, raced, ops>>

\* The thunks the screens dispatch, over any store.  The callbacks of the
\* scheduler are not taken here (SpecPkce has them): the effect still sets and
\* clears the interval with every dispatch.
NextClient ==
  \/ RootLayoutMount
  \/ RootLayoutUnmount
  \/ Advance
  \/ PkceSignInThunk(SI)
  \/ PkceCheckAuthStatusThunk
  \/ GetAuthTokenStart
  \/ GetAuthTokenGetId
  \/ GetAuthTokenReturn
  \/ \E thunk \in {"createItem", "updateItemAsync", "deleteItem"} :
       ListItemsRequest(thunk)
  \/ ListItemsSettle

SpecClient == InitClient /\ [][NextClient]_vars

\* ================================================================== claims
RefreshPcs == {"rt_getRefresh", "rt_fetch", "rt_setAccess", "rt_setId",
               "rt_clearAccess", "rt_clearId", "rt_clearRefresh"}
CatchPcs == {"rt_clearAccess", "rt_clearId", "rt_clearRefresh"}

Unauthenticated(s) == ~s.isAuthenticated /\ s.user = Null /\ s.tokens = Null

\* the step is not the teardown of the app
Running == pc'[ROOT] = pc[ROOT]

\* the invocation p takes a step of its own
Steps(p) == pc'[p] # pc[p] /\ Running

\* C1: a tick that fires while the renewal started by another tick is in flight
\* (request sent, not settled) is a no-op, so the two ticks put exactly one
\* refresh request on the wire: the later tick never has a request of its own
\* outstanding.
C1_OverlappingTickIsNoOp ==
  \A p \in Ticks : firedMidRenewal[p] => pc[p] # "rt_fetch"

\* C2: when signOut settles while a renewal's request is out, the late result is
\* discarded: at the step that ends the renewal the session is Unauthenticated
\* and the access, id and refresh keys are absent.
C2_LateRenewalDiscarded ==
  [][\A p \in Hosts :
       (raced[p] /\ pc[p] \in RefreshPcs /\ pc'[p] = "idle" /\ pc'[SO] = "idle"
          /\ Running)
       => /\ Unauthenticated(userState')
          /\ \A k \in TokenKeys : store'[k] = Null]_vars

\* The catch block of refreshToken, for a failure msg, as the code runs it:
\* each continuation deletes its key, and the last one settles the thunk
\* rejected, which signs the session out and stops the interval.  The message is
\* recorded, unless checkAuthStatus dispatched the renewal: it then settles
\* fulfilled with null and erases the message.
CatchSignsOut(p, msg) ==
  loc[p].failure = msg =>
    /\ (pc[p] = "rt_clearAccess" /\ Steps(p))
         => store'[ACCESS_TOKEN_KEY] = Null /\ pc'[p] = "rt_clearId"
    /\ (pc[p] = "rt_clearId" /\ Steps(p))
         => store'[ID_TOKEN_KEY] = Null /\ pc'[p] = "rt_clearRefresh"
    /\ (pc[p] = "rt_clearRefresh" /\ Steps(p))
         => /\ store'[REFRESH_TOKEN_KEY] = Null
            /\ Unauthenticated(userState')
            /\ userState'.error = (IF p = CAS THEN ErrNull ELSE msg)
            /\ intervalRef' = Null /\ ~mountCheck'
            /\ pc'[p] = "idle"

C5_NoStaleSession ==
  ( /\ userState.isAuthenticated
    /\ IdTokenOf(userState) # Null
    /\ store[REFRESH_TOKEN_KEY] # Null
    /\ store[ID_TOKEN_KEY] = IdTokenOf(userState)
    /\ \A p \in Procs : pc[p] = "idle"
    /\ ~mountCheck
    /\ intervalRef # Null )
  => ( now < intervalRef.at => DecodePayload(IdTokenOf(userState)).exp >= now )

\* C6 (as claimed): renew() that finds no refresh credential leaves the access
\* and id keys exactly as they were.
C6_MissingRefreshLeavesAccessAndId ==
  [][\A p \in Hosts :
       (loc[p].failure = NoRefreshToken /\ pc[p] \in CatchPcs /\ Steps(p))
       => /\ store'[ACCESS_TOKEN_KEY] = store[ACCESS_TOKEN_KEY]
          /\ store'[ID_TOKEN_KEY] = store[ID_TOKEN_KEY]]_vars

\* C6 (amended): renew() that finds no refresh credential in storage sends no
\* request, fails with "No refresh token available", deletes the access and id
\* keys (and the refresh key), and the session becomes Unauthenticated.
C6_MissingRefreshClearsAndSignsOut ==
  [][\A p \in Hosts :
       /\ (pc[p] = "rt_getRefresh" /\ Steps(p) /\ store[REFRESH_TOKEN_KEY] = Null)
            => pc'[p] = "rt_clearAccess" /\ loc'[p].failure = NoRefreshToken
       /\ (pc[p] = "rt_getRefresh" /\ Steps(p) /\ store[REFRESH_TOKEN_KEY] # Null)
            => pc'[p] = "rt_fetch"
       /\ CatchSignsOut(p, NoRefreshToken)]_vars

\* a renewal found no refresh credential while access and id credentials were
\* stored, and has deleted them
C6_Witness ==
  \E p \in Hosts :
    /\ pc[p] = "rt_clearRefresh" /\ loc[p].failure = NoRefreshToken
    /\ store[ACCESS_TOKEN_KEY] = Null /\ store[ID_TOKEN_KEY] = Null

\* C7: a renewal answered with an invalid-grant error deletes the access, id and
\* refresh credentials and settles rejected: the session becomes
\* Unauthenticated with identity and credentials absent.
C7_InvalidGrantClearsAndSignsOut ==
  [][\A p \in Hosts :
       /\ (pc[p] = "rt_fetch" /\ Steps(p) /\ loc'[p].failure = NotAuthorized)
            => pc'[p] = "rt_clearAccess"
       /\ CatchSignsOut(p, NotAuthorized)]_vars

\* a renewal was refused by the provider while the session was Authenticated,
\* and has deleted the access and id credentials
C7_Witness ==
  \E p \in Hosts :
    /\ pc[p] = "rt_clearRefresh" /\ loc[p].failure = NotAuthorized
    /\ userState.isAuthenticated
    /\ store[ACCESS_TOKEN_KEY] = Null /\ store[ID_TOKEN_KEY] = Null

\* C8: identity and credentials are present exactly when the session is
\* authenticated.
C8_IdentityIffAuthenticated ==
  (userState.user # Null /\ userState.tokens # Null) <=> userState.isAuthenticated

\* C9: when the interactive sign-in is cancelled (the browser returns anything
\* other than a success redirect), the stored code_verifier is deleted, the
\* session is Unauthenticated, and none of the access, id and refresh keys is
\* written.
C9_CancelledSignInDiscardsVerifier ==
  [][(pc[SI] = "pk_browser" /\ Steps(SI) /\ userState'.error = Cancelled)
       => /\ store'[CODE_VERIFIER_KEY] = Null
          /\ ~userState'.isAuthenticated
          /\ \A k \in TokenKeys : store'[k] = store[k]]_vars

\* C10: the code_verifier is consumed exactly once: when signIn settles after
\* it has exchanged the authorization code, whether the exchange succeeded or
\* failed, the code_verifier key is no longer in the credential store.
C10_VerifierConsumedOnce ==
  [][(pc[SI] \in {"pk_fetch", "pk_setId", "pk_setRefresh"} /\ pc'[SI] = "idle"
        /\ Running)
       => store'[CODE_VERIFIER_KEY] = Null]_vars

\* C11: in every interleaving of signIn with signOut or another signIn, the
\* token exchange is sent only with the verifier that the same sign-in attempt
\* generated and stored: an attempt whose request is out, or which is storing
\* the credentials it obtained, read back its own verifier.
C11_ExchangeUsesOwnVerifier ==
  \A p \in PkceSignIns :
    pc[p] \in {"pk_fetch", "pk_setAccess", "pk_setId", "pk_setRefresh"}
      => loc[p].codeVerifierRead = loc[p].codeVerifier

\* C12: a signIn that is the only operation since the app started (as on a
\* fresh install) and completes with a well-formed response (access, id and
\* refresh credentials) ends Authenticated with the identity decoded from the
\* id credential, the store holds the three credentials it was given, the
\* interval is set and the immediate check is started.
C12_FreshSignInAuthenticates ==
  [][\A p \in PkceSignIns :
       (ops = 1 /\ pc[p] = "pk_setRefresh" /\ Steps(p))
       => /\ userState'.isAuthenticated
          /\ userState'.user = UserOf(DecodePayload(loc[p].idToken))
          /\ userState'.tokens = [accessToken |-> loc[p].accessToken,
                                  idToken |-> loc[p].idToken,
                                  refreshToken |-> loc[p].newRefresh]
          /\ store'[ACCESS_TOKEN_KEY] = loc[p].accessToken
          /\ store'[ID_TOKEN_KEY] = loc[p].idToken
          /\ store'[REFRESH_TOKEN_KEY] = loc[p].newRefresh
          /\ \A k \in TokenKeys : store'[k] # Null
          /\ intervalRef' = [kind |-> "timer", at |-> now + TOKEN_REFRESH_INTERVAL]
          /\ mountCheck']_vars

\* the first sign-in after a fresh install has just completed: the session is
\* Authenticated, the three credentials are stored, the scheduler is set
C12_Witness ==
  /\ ops = 1 /\ pc[SI] = "idle" /\ pc[SO] = "idle" /\ pc[CAS] = "idle"
  /\ userState.isAuthenticated
  /\ userState.tokens # Null
  /\ store[REFRESH_TOKEN_KEY] = RefreshToken(now)
  /\ store[ID_TOKEN_KEY] = IssuedId
  /\ store[CODE_VERIFIER_KEY] = CodeVerifier(1)
  /\ intervalRef # Null /\ mountCheck

\* C13: a persisted id credential whose exp is already in the past when
\* checkAuthStatus examines it is never restored: the check takes the renewal
\* branch and leaves the session as it is, and whenever checkAuthStatus settles
\* with the session Authenticated, the id credential the session holds is not
\* that expired credential.
C13_ExpiredCredentialNotRestored ==
  [][/\ (pc[CAS] = "cas_getId" /\ Steps(CAS) /\ store[ID_TOKEN_KEY] # Null
           /\ DecodePayload(store[ID_TOKEN_KEY]).exp < now)
          => /\ pc'[CAS] = "cas_getRefresh"
             /\ userState' = userState
     /\ (Steps(CAS) /\ pc'[CAS] = "idle" /\ userState'.isAuthenticated)
          => /\ IdTokenOf(userState') # Null
             /\ IdTokenOf(userState') = loc[CAS].examined
                  => loc[CAS].timeUntilExpiry >= 0]_vars

\* checkAuthStatus examined a credential that had already expired, renewed it,
\* and is about to settle
C13_Witness ==
  /\ pc[CAS] = "rt_setId"
  /\ loc[CAS].examined # Null
  /\ loc[CAS].timeUntilExpiry < 0
  /\ store[ID_TOKEN_KEY] = loc[CAS].examined

\* C14: the session is reconstituted on startup: once the root has mounted and
\* before the user has dispatched anything, no startup work is pending, so if
\* the store holds an id credential that is not expired the session is
\* Authenticated with the identity decoded from it and the stored credentials.
C14_StartupRestoresSession ==
  ( /\ Mounted /\ ops = 0
    /\ \A p \in Procs : pc[p] = "idle"
    /\ store[ID_TOKEN_KEY] # Null
    /\ DecodePayload(store[ID_TOKEN_KEY]).exp > now )
  => /\ userState.isAuthenticated
     /\ userState.user = UserOf(DecodePayload(store[ID_TOKEN_KEY]))
     /\ userState.tokens = [accessToken |-> store[ACCESS_TOKEN_KEY],
                            idToken |-> store[ID_TOKEN_KEY],
                            refreshToken |-> store[REFRESH_TOKEN_KEY]]

\* C15: whenever signOut completes, in every outcome, the session is
\* Unauthenticated with identity and credentials null, and the access, id and
\* refresh credentials and the code_verifier are absent from the store.
C15_SignOutAlwaysSucceeds ==
  [][(pc[SO] # "idle" /\ Steps(SO) /\ pc'[SO] = "idle")
       => /\ Unauthenticated(userState')
          /\ \A k \in Keys : store'[k] = Null]_vars

C17_UserAndTokensTogether ==
  [][\/ /\ userState'.user = userState.user
        /\ userState'.tokens = userState.tokens
     \/ /\ userState'.user = Null
        /\ userState'.tokens = Null
     \/ \E payload \in Payloads :
          /\ userState'.user = payload.user
          /\ userState'.tokens = payload.tokens]_vars

\* a fulfilled sign-in, renewal or check has replaced user and tokens, and a
\* later rejection has left both in place
C17_Witness ==
  /\ userState.user # Null /\ userState.tokens # Null
  /\ ~userState.isAuthenticated
  /\ userState.error = NetworkFailed

\* C18: a signIn that fails before its credential-persisting step writes none
\* of the access, id and refresh keys: every step it takes up to and including
\* the failure (browser cancelled, no code, no verifier, token endpoint error,
\* undecodable id token) leaves the three keys as they are, and the failure
\* settles the thunk rejected.
C18_FailedSignInPersistsNothing ==
  [][\A p \in PkceSignIns :
       (pc[p] \in {"idle", "pk_setVerifier", "pk_browser", "pk_getVerifier", "pk_fetch"}
          /\ Steps(p))
       => /\ \A k \in TokenKeys : store'[k] = store[k]
          /\ pc'[p] = "idle" => /\ ~userState'.isAuthenticated
                                /\ userState'.error \in {Cancelled, NoCode, NoVerifier,
                                     NetworkFailed, ExchangeFailed, Undecodable}]_vars

\* a sign-in over a persisted credential set has failed on an undecodable id
\* token; the persisted credentials are still in the store
C18_Witness ==
  /\ ops = 1 /\ pc[SI] = "idle"
  /\ userState.error = Undecodable
  /\ store[ACCESS_TOKEN_KEY] = AccessToken(PersistedExp)
  /\ store[ID_TOKEN_KEY] = IdToken(PersistedExp, "u1")
  /\ store[CODE_VERIFIER_KEY] # Null

\* C19: an operation that persists more than one credential writes the id
\* credential last: the step of signIn or of a renewal that stores the id
\* credential is the operation's last write, so the new id credential is never
\* in the store while a credential of the same set is still to be written.
C19_IdCredentialWrittenLast ==
  [][\A p \in Procs :
       (pc[p] \in {"si_setId", "rt_setId", "pk_setId"} /\ Steps(p))
       => pc'[p] \notin {"si_setAccess", "si_setRefresh", "rt_setAccess",
                         "pk_setAccess", "pk_setRefresh"}]_vars

\* C20: a successful renewal overwrites only the access and id credentials:
\* none of its steps changes the refresh key (or the code_verifier), the
\* access step writes only the access key, the id step only the id key, and
\* the credentials it hands to the session carry the new access and id
\* credentials and the refresh credential it read at its start.
C20_RenewKeepsRefreshCredential ==
  [][\A p \in Hosts :
       /\ (pc[p] \in {"rt_getRefresh", "rt_fetch", "rt_setAccess", "rt_setId"}
             /\ Steps(p) /\ pc'[p] \notin CatchPcs)
            => /\ store'[REFRESH_TOKEN_KEY] = store[REFRESH_TOKEN_KEY]
               /\ store'[CODE_VERIFIER_KEY] = store[CODE_VERIFIER_KEY]
       /\ (pc[p] = "rt_getRefresh" /\ Steps(p) /\ pc'[p] = "rt_fetch")
            => loc'[p].refreshTokenValue = store[REFRESH_TOKEN_KEY]
       /\ (pc[p] = "rt_fetch" /\ Steps(p))
            => loc'[p].refreshTokenValue = loc[p].refreshTokenValue
       /\ (pc[p] = "rt_setAccess" /\ Steps(p))
            => /\ store'[ACCESS_TOKEN_KEY] = loc[p].accessToken
               /\ store'[ID_TOKEN_KEY] = store[ID_TOKEN_KEY]
               /\ loc' = loc
       /\ (pc[p] = "rt_setId" /\ Steps(p))
            => /\ store'[ID_TOKEN_KEY] = loc[p].idToken
               /\ store'[ACCESS_TOKEN_KEY] = store[ACCESS_TOKEN_KEY]
               /\ pc'[p] = "idle"
               /\ userState'.isAuthenticated
               /\ userState'.tokens = [accessToken |-> loc[p].accessToken,
                                       idToken |-> loc[p].idToken,
                                       refreshToken |-> loc[p].refreshTokenValue]
               /\ loc[p].refreshTokenValue # Null]_vars

\* a renewal started by a tick has stored the new access credential and is
\* about to store the id credential; the refresh credential it read is still
\* the stored one
C20_Witness ==
  \E p \in Ticks :
    /\ pc[p] = "rt_setId"
    /\ store[ACCESS_TOKEN_KEY] = loc[p].accessToken
    /\ store[ID_TOKEN_KEY] # loc[p].idToken
    /\ loc[p].refreshTokenValue # Null
    /\ store[REFRESH_TOKEN_KEY] = loc[p].refreshTokenValue

\* C21: a tick that reads no id credential from the store, or one that does not
\* decode, returns at once: it dispatches no renewal, leaves the session state
\* and the credential store as they are, and leaves the interval timer set, so
\* the timer still fires later.
C21_TickWithoutCredentialIsNoOp ==
  [][\A p \in Ticks :
       ( /\ pc[p] = "tick_getId" /\ Steps(p)
         /\ (store[ID_TOKEN_KEY] = Null \/ ~Decodes(store[ID_TOKEN_KEY])) )
       => /\ pc'[p] = "idle"
          /\ userState' = userState
          /\ store' = store
          /\ timers' = timers
          /\ intervalRef' = intervalRef]_vars

\* the session is Authenticated and its timer is set, the id credential has
\* been deleted from the store meanwhile (a signOut is under way), and a tick
\* is about to read the id key
C21_Witness ==
  \E p \in Ticks :
    /\ pc[p] = "tick_getId"
    /\ store[ID_TOKEN_KEY] = Null
    /\ userState.isAuthenticated
    /\ intervalRef # Null /\ timers = {intervalRef}

\* C22: an id credential whose payload lacks exp or sub is never accepted: in
\* every state where the session is authenticated, the id credential it holds
\* decodes to a payload with both exp and sub.
C22_IdCredentialHasExpAndSub ==
  (userState.isAuthenticated /\ IdTokenOf(userState) # Null)
  => /\ Decodes(IdTokenOf(userState))
     /\ DecodePayload(IdTokenOf(userState)).exp # 0
     /\ DecodePayload(IdTokenOf(userState)).sub # ""

\* C23: a signIn that settles at the browser step (no redirect was followed up
\* with an exchange) records no error message unless the redirect carried no
\* authorization code: after a cancelled sign-in the error field is null.
C23_CancelledSignInLeavesNoError ==
  [][\A p \in PkceSignIns :
       (pc[p] = "pk_browser" /\ Steps(p) /\ pc'[p] = "idle")
       => userState'.error \in {ErrNull, NoCode}]_vars

\* C24: getAuthToken never returns an id credential that has expired: when it
\* returns a token that decodes to a payload with exp, that exp is not in the
\* past.
C24_AccessorReturnsValidOrNull ==
  [][( /\ pc[GAT] = "gat_getId" /\ Steps(GAT)
       /\ loc'[GAT].idToken # Null
       /\ Decodes(loc'[GAT].idToken)
       /\ DecodePayload(loc'[GAT].idToken).exp # 0 )
       => DecodePayload(loc'[GAT].idToken).exp >= now]_vars

\* C25: a listing request carries the id credential of the current session
\* when the session is authenticated, and no credential when it is not.
C25_RequestsCarrySessionCredential ==
  [][(pc[LI] = "idle" /\ pc'[LI] = "li_fetch")
       => loc'[LI].headers.Authorization =
            (IF userState.isAuthenticated THEN IdTokenOf(userState) ELSE Null)]_vars

\* C26: whenever the session is Authenticated with nothing in flight, the
\* stored id credential is within the renewal threshold (exp - now < 60) and no
\* refresh credential is stored, the session eventually stops being
\* authenticated: a renewal is attempted, fails for want of a refresh
\* credential, and signs the session out.
C26_ExpiringWithoutRefreshSignsOut ==
  ( /\ Mounted
    /\ \A p \in Procs : pc[p] = "idle"
    /\ userState.isAuthenticated
    /\ store[ID_TOKEN_KEY] # Null
    /\ TimeUntilExpiry(store[ID_TOKEN_KEY]) < TICK_THRESHOLD
    /\ store[REFRESH_TOKEN_KEY] = Null )
  ~> ~userState.isAuthenticated

\* C27: whenever an identity is present it is the one derived from the id
\* credential held in the same state: sub and email are the token's claims, and
\* username is its cognito:username claim when the token has one, else its sub.
C27_IdentityDerivedFromCredential ==
  userState.user # Null =>
    /\ userState.tokens # Null
    /\ userState.tokens.idToken # Null
    /\ LET claims == userState.tokens.idToken.segs[2] IN
         /\ userState.user.sub = claims.sub
         /\ userState.user.email = claims.email
         /\ userState.user.username =
              IF claims.cognito_username = "" THEN claims.sub
              ELSE claims.cognito_username

\* the stored token (no username claim) was renewed by a refreshToken: the
\* identity carries the username claim of the renewed token held with it
C27_Witness ==
  /\ userState.user # Null
  /\ userState.user.username = "alice"
  /\ userState.user.sub = "u1"
  /\ userState.tokens.idToken.segs[2].exp > TokenLifetime
  /\ userState.tokens.refreshToken = RefreshToken(0 - 1)

\* C28: whenever no auth operation is in flight and the session is
\* authenticated, the tokens held in the session state are exactly the values
\* stored under the access, id and refresh keys.
C28_StateCopyEqualsStore ==
  ( /\ Mounted
    /\ \A p \in Procs : pc[p] = "idle"
    /\ userState.isAuthenticated )
  => /\ userState.tokens # Null
     /\ userState.tokens.accessToken = store[ACCESS_TOKEN_KEY]
     /\ userState.tokens.idToken = store[ID_TOKEN_KEY]
     /\ userState.tokens.refreshToken = store[REFRESH_TOKEN_KEY]

\* an auth thunk dispatched on p has not settled
InFlight(p) == pc[p] \notin {"idle", "tick_getId", "tick_getRefresh"}

\* C29: the shared isLoading flag is true whenever at least one auth thunk
\* (signIn, signOut, refreshToken, checkAuthStatus, also the refreshToken
\* nested in checkAuthStatus or dispatched by the scheduler) is in flight.
C29_LoadingWhileInFlight ==
  (\E p \in Hosts \cup {SI, SO} : InFlight(p)) => userState.isLoading

\* C30: every dispatched auth operation settles: from any state in which a thunk
\* (or the tick that may dispatch one) is under way, it eventually returns; the
\* step that settles a thunk runs its fulfilled or rejected reducer case, which
\* clears isLoading and records null or a message; and whenever no operation
\* is in flight isLoading is false.
C30_EveryOperationSettles ==
  /\ \A p \in {TICK, CAS, SI, SO, SU, CSU} : (pc[p] # "idle") ~> (pc[p] = "idle")
  /\ [][\A p \in Hosts \cup {SI, SO, SU, CSU} :
          (InFlight(p) /\ pc'[p] = "idle")
          => /\ ~userState'.isLoading
             /\ userState'.error \in Messages \cup {ErrNull}]_vars
  /\ []((\A p \in Hosts \cup {SI, SO, SU, CSU} : ~InFlight(p)) => ~userState.isLoading)

\* two operations were dispatched and both have settled, the later one
\* rejected: nothing is in flight and isLoading is false
C30_Witness ==
  /\ ops = MaxOps
  /\ \A p \in Procs : pc[p] = "idle"
  /\ userState.error = NetworkFailed
  /\ ~userState.isLoading

====
